---- MODULE Spec2Model ----
(***************************************************************************)
(* Model of pulpcore/download/context.py: the object Cache with its Items  *)
(* and usage-aware eviction, and the mutex-guarded download Context.       *)
(*                                                                         *)
(* Time is counted in hours.  A dict is a sequence of entries in insertion *)
(* order, as iteration over a Python 3 dict sees it.                       *)
(***************************************************************************)
EXTENDS Integers, Sequences, FiniteSets, TLC

\* ---------------------------------------------------------------- bounds
Threads == {"t1", "t2"}
Keys == {"A", "B"}
Objects == {"o1", "o2"}
MaxTime == 2
MaxHolders == 1
MaxDepth == 2
MaxCount == 2

\* timedelta(hours=4), the threshold used when none (or a falsy one) is given
DefaultThreshold == 4
\* eviction_threshold arguments given to Cache(): 0 stands for None
ThresholdArgs == {0, 1}

NoOwner == "nobody"

VARIABLES
    clock,              \* datetime.utcnow()
    eviction_threshold, \* Cache.eviction_threshold
    inventory,          \* Cache._inventory: entries [key, object, last_requested]
    holders,            \* references to each object held outside the cache
    lock_owner,         \* Cache._lock: owning thread
    lock_count,         \* Cache._lock: recursion level
    pc,                 \* position of each thread inside a Cache call
    frame,              \* the outermost Cache call of each thread and its locals
    now,                \* evict(): local now
    idx,                \* evict(): position of the dict iterator
    di_used,            \* evict(): dict size the iterator was created with
    busy,               \* evict(): local list busy
    evicted,            \* evict(): local list evicted
    ret,                \* outcome handed to the caller by the step just taken
    quiet,              \* thread whose evict() calls ran back to back, undisturbed
    properties,         \* Context.__dict__
    mutex,              \* state of each RLock a Context can hold: owner and level
    cpc,                \* position of each thread in its use of the Context
    depth,              \* with-blocks on the Context each thread has open itself
    tmp,                \* counter value read by a thread that increments it
    token,              \* get_token(): the token the thread returns
    generated,          \* number of generate_token() calls made
    increments,         \* number of increments of the counter carried out
    cret                \* outcome handed to the caller of the Context by the step just taken

cacheVars == <<clock, eviction_threshold, inventory, holders, lock_owner,
               lock_count, pc, frame, now, idx, di_used, busy, evicted, ret,
               quiet>>

ctxVars == <<properties, mutex, cpc, depth, tmp, token, generated, increments, cret>>

vars == <<cacheVars, ctxVars>>

\* ------------------------------------------------------------ value model
NoneValue == [type |-> "NoneType"]
ObjectValue(o) == [type |-> "object", object |-> o]
ItemValue(e) == [type |-> "Item", object |-> e.object,
                 last_requested |-> e.last_requested]
ListValue(s) == [type |-> "list", items |-> s]
BoolValue(b) == [type |-> "bool", b |-> b]
ErrorValue(name) == [type |-> name]

Return(v) == [kind |-> "return", value |-> v]
Raise(name) == [kind |-> "raise", value |-> ErrorValue(name)]
\* no call has completed in the step just taken
NoCall == [kind |-> "none", value |-> NoneValue]

\* LookupError and its subclass KeyError are the "not found" errors
IsNotFound(r) == r.kind = "raise" /\ r.value.type \in {"LookupError", "KeyError"}

NoFrame == [op |-> "none", key |-> "-", object |-> "-"]
EvictFrame == [op |-> "evict", key |-> "-", object |-> "-"]
GetFrame(k, o) == [op |-> "get", key |-> k, object |-> o]

\* ------------------------------------------------------------- dict model
Has(inv, k) == \E i \in DOMAIN inv : inv[i].key = k
IndexOf(inv, k) == CHOOSE i \in DOMAIN inv : inv[i].key = k
Lookup(inv, k) == inv[IndexOf(inv, k)]
RemoveAt(inv, i) == [j \in 1..(Len(inv) - 1) |-> IF j < i THEN inv[j] ELSE inv[j + 1]]
\* Pop written with dict.popitem(): the entry stored last is removed
Pop_popitem(inv, k) == RemoveAt(inv, Len(inv))
Pop(inv, k) == RemoveAt(inv, IndexOf(inv, k))
\* Store written with dict.setdefault(): an entry already there is kept
Store_setdefault(inv, k, e) == IF Has(inv, k) THEN inv ELSE Append(inv, e)
\* self._inventory[key] = item: a key already there keeps its place
Store(inv, k, e) == IF Has(inv, k)
                    THEN [inv EXCEPT ![IndexOf(inv, k)] = e]
                    ELSE Append(inv, e)

Count(s, x) == Cardinality({i \in DOMAIN s : s[i] = x})

\* ------------------------------------------------------------------ Item
Item(k, o, t) == [key |-> k, object |-> o, last_requested |-> t]
\* touch that leaves last_requested as it was
touch_stale(e, t) == e
touch(e, t) == [e EXCEPT !.last_requested = t]

\* references to an object other than the one of the Item asked and the
\* argument of getrefcount(): outside holders, other Items of the inventory
\* and the lists of the sweeps in progress
ListRefs(o) == LET Refs(t) == Count(busy[t], o) + Count(evicted[t], o)
                   RECURSIVE Sum(_)
                   Sum(S) == IF S = {} THEN 0
                             ELSE LET t == CHOOSE x \in S : TRUE
                                  IN Refs(t) + Sum(S \ {t})
               IN Sum(Threads)
getrefcount(o) == holders[o] + Count([i \in DOMAIN inventory |-> inventory[i].object], o)
                  + ListRefs(o) + 1
ref_count(e) == getrefcount(e.object) - 2
is_busy(e) == ref_count(e) > 0

\* ------------------------------------------------------------------ RLock
\* CanAcquire of a lock that never makes a thread wait
CanAcquire_always(t) == TRUE
\* RLock.acquire() on Cache._lock returns for a free lock and for its owner
CanAcquire(t) == lock_owner \in {NoOwner, t}

\* ------------------------------------------------------------------ Cache
\* Cache.__init__: eviction_threshold or timedelta(hours=4)
Cache__init__(arg) == IF arg = 0 THEN DefaultThreshold ELSE arg

\* Fresh with the comparison one hour off
Fresh_off_by_one(duration, threshold) == duration < threshold - 1

\* Fresh with <= for <: an entry exactly as old as the threshold is skipped
Fresh_inclusive(duration, threshold) == duration <= threshold

\* evict(): an entry younger than the threshold is skipped
Fresh(duration, threshold) == duration < threshold

\* verdict without the test of item.busy
verdict_no_busy(e, n) ==
    IF Fresh(n - e.last_requested, eviction_threshold) THEN "skip" ELSE "purge"

\* evict(): what the body of the loop does with an item, for the sweep's now
verdict(e, n) ==
    IF is_busy(e) THEN "busy"
    ELSE IF Fresh(n - e.last_requested, eviction_threshold) THEN "skip"
    ELSE "purge"

NotQuiet == [thread |-> NoOwner, calls |-> 0]

\* the state a thread leaves behind when its outermost call is over: every
\* with-block it was in has released the lock
Finish(t, outcome) ==
    /\ pc' = [pc EXCEPT ![t] = "idle"]
    /\ frame' = [frame EXCEPT ![t] = NoFrame]
    /\ now' = [now EXCEPT ![t] = 0]
    /\ idx' = [idx EXCEPT ![t] = 0]
    /\ di_used' = [di_used EXCEPT ![t] = 0]
    /\ busy' = [busy EXCEPT ![t] = <<>>]
    /\ evicted' = [evicted EXCEPT ![t] = <<>>]
    /\ lock_owner' = NoOwner
    /\ lock_count' = 0
    /\ ret' = outcome

InitCache ==
    /\ clock = 0
    /\ eviction_threshold \in {Cache__init__(a) : a \in ThresholdArgs}
    /\ inventory = <<>>
    /\ holders = [o \in Objects |-> 0]
    /\ lock_owner = NoOwner
    /\ lock_count = 0
    /\ pc = [t \in Threads |-> "idle"]
    /\ frame = [t \in Threads |-> NoFrame]
    /\ now = [t \in Threads |-> 0]
    /\ idx = [t \in Threads |-> 0]
    /\ di_used = [t \in Threads |-> 0]
    /\ busy = [t \in Threads |-> <<>>]
    /\ evicted = [t \in Threads |-> <<>>]
    /\ ret = NoCall
    /\ quiet = NotQuiet

\* time passes
Tick ==
    /\ clock < MaxTime
    /\ clock' = clock + 1
    /\ ret' = NoCall
    /\ quiet' = NotQuiet
    /\ UNCHANGED <<eviction_threshold, inventory, holders, lock_owner, lock_count,
                   pc, frame, now, idx, di_used, busy, evicted>>
    /\ UNCHANGED ctxVars

\* code outside the cache takes a reference to an object
Acquire(o) ==
    /\ holders[o] < MaxHolders
    /\ holders' = [holders EXCEPT ![o] = @ + 1]
    /\ ret' = NoCall
    /\ quiet' = NotQuiet
    /\ UNCHANGED <<clock, eviction_threshold, inventory, lock_owner, lock_count,
                   pc, frame, now, idx, di_used, busy, evicted>>
    /\ UNCHANGED ctxVars

\* code outside the cache drops a reference to an object
Release(o) ==
    /\ holders[o] > 0
    /\ holders' = [holders EXCEPT ![o] = @ - 1]
    /\ ret' = NoCall
    /\ quiet' = NotQuiet
    /\ UNCHANGED <<clock, eviction_threshold, inventory, lock_owner, lock_count,
                   pc, frame, now, idx, di_used, busy, evicted>>
    /\ UNCHANGED ctxVars

\* Cache.put(key, object_)
Put(t, k, o) ==
    /\ pc[t] = "idle"
    /\ CanAcquire(t)
    /\ inventory' = Store(inventory, k, Item(k, o, clock))
    /\ ret' = Return(NoneValue)
    /\ quiet' = NotQuiet
    /\ UNCHANGED <<clock, eviction_threshold, holders, lock_owner, lock_count,
                   pc, frame, now, idx, di_used, busy, evicted>>
    /\ UNCHANGED ctxVars

\* Cache.purge(key), called from outside the cache
Purge(t, k) ==
    /\ pc[t] = "idle"
    /\ CanAcquire(t)
    /\ IF Has(inventory, k)
       THEN /\ inventory' = Pop(inventory, k)
            /\ ret' = Return(ItemValue(Lookup(inventory, k)))
       ELSE /\ inventory' = inventory
            /\ ret' = Raise("KeyError")
    /\ quiet' = NotQuiet
    /\ UNCHANGED <<clock, eviction_threshold, holders, lock_owner, lock_count,
                   pc, frame, now, idx, di_used, busy, evicted>>
    /\ UNCHANGED ctxVars

\* Cache.__contains__(key): reads the dict without taking the lock
Contains(t, k) ==
    /\ pc[t] = "idle"
    /\ ret' = Return(BoolValue(Has(inventory, k)))
    /\ quiet' = NotQuiet
    /\ UNCHANGED <<clock, eviction_threshold, inventory, holders, lock_owner,
                   lock_count, pc, frame, now, idx, di_used, busy, evicted>>
    /\ UNCHANGED ctxVars

\* Cache.get(key), the key is in the inventory: the item is touched and the
\* call goes on to evict() with the lock held
GetHit(t, k) ==
    /\ inventory' = Store(inventory, k, touch(Lookup(inventory, k), clock))
    /\ lock_owner' = t
    /\ lock_count' = lock_count + 1
    /\ pc' = [pc EXCEPT ![t] = "get_evict"]
    /\ frame' = [frame EXCEPT ![t] = GetFrame(k, Lookup(inventory, k).object)]
    /\ ret' = NoCall

\* GetMiss written with dict.get(): None is returned for a missing key
GetMiss_default(t, k) ==
    /\ ret' = Return(NoneValue)
    /\ UNCHANGED <<inventory, lock_owner, lock_count, pc, frame>>

\* Cache.get(key), the key is not in the inventory: KeyError becomes LookupError
GetMiss(t, k) ==
    /\ ret' = Raise("LookupError")
    /\ UNCHANGED <<inventory, lock_owner, lock_count, pc, frame>>

\* Cache.get(key) up to its call of evict(): lookup and touch under the lock
Get(t, k) ==
    /\ pc[t] = "idle"
    /\ CanAcquire(t)
    /\ IF Has(inventory, k) THEN GetHit(t, k) ELSE GetMiss(t, k)
    /\ quiet' = NotQuiet
    /\ UNCHANGED <<clock, eviction_threshold, holders, now, idx, di_used, busy, evicted>>
    /\ UNCHANGED ctxVars

\* Cache.get(key): self.evict() is entered, evict() reads the clock
GetEvict(t) ==
    /\ pc[t] = "get_evict"
    /\ now' = [now EXCEPT ![t] = clock]
    /\ pc' = [pc EXCEPT ![t] = "evict_lock"]
    /\ ret' = NoCall
    /\ quiet' = NotQuiet
    /\ UNCHANGED <<clock, eviction_threshold, inventory, holders, lock_owner,
                   lock_count, frame, idx, di_used, busy, evicted>>
    /\ UNCHANGED ctxVars

\* Cache.evict() called from outside the cache: the lists are created and the
\* clock is read before the lock is taken
Evict(t) ==
    /\ pc[t] = "idle"
    /\ now' = [now EXCEPT ![t] = clock]
    /\ pc' = [pc EXCEPT ![t] = "evict_lock"]
    /\ frame' = [frame EXCEPT ![t] = EvictFrame]
    /\ ret' = NoCall
    /\ quiet' = IF quiet.thread = t /\ quiet.calls = 1
                THEN quiet ELSE [thread |-> t, calls |-> 0]
    /\ UNCHANGED <<clock, eviction_threshold, inventory, holders, lock_owner,
                   lock_count, idx, di_used, busy, evicted>>
    /\ UNCHANGED ctxVars

\* Cache.evict(): with self._lock, and the iterator over the items is created
EvictLock(t) ==
    /\ pc[t] = "evict_lock"
    /\ CanAcquire(t)
    /\ lock_owner' = t
    /\ lock_count' = lock_count + 1
    /\ idx' = [idx EXCEPT ![t] = 1]
    /\ di_used' = [di_used EXCEPT ![t] = Len(inventory)]
    /\ pc' = [pc EXCEPT ![t] = "evict_iter"]
    /\ ret' = NoCall
    /\ quiet' = IF quiet.thread = t THEN quiet ELSE NotQuiet
    /\ UNCHANGED <<clock, eviction_threshold, inventory, holders, frame, now,
                   busy, evicted>>
    /\ UNCHANGED ctxVars

\* what the outermost call hands back when the sweep returns its list
SweepOutcome(t) ==
    IF frame[t].op = "get"
    THEN Return(ObjectValue(frame[t].object))
    ELSE Return(ListValue(evicted[t]))

\* what the outermost call hands back when the iterator raises
SweepFailure(t) == Raise("RuntimeError")

\* Cache.evict(): one turn of the for loop, the iterator's next() first
EvictStep(t) ==
    /\ pc[t] = "evict_iter"
    /\ IF di_used[t] # Len(inventory)
       THEN \* dictionary changed size during iteration
            /\ Finish(t, SweepFailure(t))
            /\ quiet' = IF quiet.thread = t /\ frame[t].op = "evict"
                        THEN [thread |-> t, calls |-> 1] ELSE NotQuiet
            /\ UNCHANGED <<inventory>>
       ELSE IF idx[t] > Len(inventory)
       THEN \* the iterator is exhausted: log and return
            /\ Finish(t, SweepOutcome(t))
            /\ quiet' = IF quiet.thread = t /\ frame[t].op = "evict"
                        THEN [thread |-> t, calls |-> 1] ELSE NotQuiet
            /\ UNCHANGED <<inventory>>
       ELSE LET e == inventory[idx[t]]
                v == verdict(e, now[t])
            IN /\ IF v = "busy"
                  THEN /\ busy' = [busy EXCEPT ![t] = Append(@, e.object)]
                       /\ UNCHANGED <<inventory, evicted>>
                  ELSE IF v = "skip"
                  THEN UNCHANGED <<inventory, busy, evicted>>
                  ELSE \* self.purge(key): the lock is taken and released again
                       /\ inventory' = Pop(inventory, e.key)
                       /\ evicted' = [evicted EXCEPT ![t] = Append(@, e.object)]
                       /\ UNCHANGED <<busy>>
               /\ idx' = [idx EXCEPT ![t] = @ + 1]
               /\ quiet' = IF quiet.thread = t THEN quiet ELSE NotQuiet
               /\ ret' = NoCall
               /\ UNCHANGED <<lock_owner, lock_count, pc, frame, now, di_used>>
    /\ UNCHANGED <<clock, eviction_threshold, holders>>
    /\ UNCHANGED ctxVars

Next ==
    \/ Tick
    \/ \E o \in Objects : Acquire(o)
    \/ \E o \in Objects : Release(o)
    \/ \E t \in Threads, k \in Keys, o \in Objects : Put(t, k, o)
    \/ \E t \in Threads, k \in Keys : Purge(t, k)
    \/ \E t \in Threads, k \in Keys : Contains(t, k)
    \/ \E t \in Threads, k \in Keys : Get(t, k)
    \/ \E t \in Threads : GetEvict(t)
    \/ \E t \in Threads : Evict(t)
    \/ \E t \in Threads : EvictLock(t)
    \/ \E t \in Threads : EvictStep(t)


\* ---------------------------------------------------------------- Context
\* the lock made by Context.__init__ and a lock made by a caller
Locks == {"RLock0", "RLock1"}
Free == [owner |-> NoOwner, count |-> 0]

\* Context.__init__(**properties): the caller's properties first, then the
\* lock and the cache
Context__init__(given) ==
    [n \in DOMAIN given \cup {"MUTEX", "cache"} |->
        IF n = "MUTEX" THEN "RLock0"
        ELSE IF n = "cache" THEN "Cache0"
        ELSE given[n]]

\* the keyword arguments Context() is built with
InitialProperties ==
    { [n \in {"counter"} |-> 0],
      [n \in {"counter", "cache", "MUTEX"} |-> IF n = "counter" THEN 0 ELSE "mine"] }

\* Context._mutex
_mutex == properties["MUTEX"]

\* MutexFreeFor of a lock that never makes a thread wait
MutexFreeFor_always(t) == TRUE
\* RLock.acquire() returns at once for a free lock and for its owner
MutexFreeFor(t) == mutex[_mutex].owner \in {NoOwner, t}
RLock_acquire(m, t) == [owner |-> t, count |-> m.count + 1]
\* RLock_release of a lock that is not reentrant: one release frees it
RLock_release_all(m) == Free
\* RLock.release(): one level is given back, the last one frees the lock
RLock_release(m) == IF m.count = 1 THEN Free ELSE [m EXCEPT !.count = @ - 1]

InitContext ==
    /\ properties \in {Context__init__(g) : g \in InitialProperties}
    /\ mutex = [l \in Locks |-> Free]
    /\ cpc = [t \in Threads |-> "idle"]
    /\ depth = [t \in Threads |-> 0]
    /\ tmp = [t \in Threads |-> 0]
    /\ token = [t \in Threads |-> "-"]
    /\ generated = 0
    /\ increments = 0
    /\ cret = NoCall

\* enter that does not take the lock
enter_unlocked(t) == mutex' = mutex
\* Context.__enter__
enter(t) == mutex' = [mutex EXCEPT ![_mutex] = RLock_acquire(@, t)]
\* exit that gives nothing back
exit_keep(t) == mutex' = mutex
\* Context.__exit__: RLock.release() by a thread that does not own the lock
\* raises RuntimeError and leaves the lock as it is
exit(t) == mutex' = IF mutex[_mutex].owner = t
                    THEN [mutex EXCEPT ![_mutex] = RLock_release(@)]
                    ELSE mutex
\* what the end of a with-block gives: the outcome of the block, or the
\* RuntimeError of the release
exit_outcome(t, outcome) == IF mutex[_mutex].owner = t
                            THEN outcome
                            ELSE Raise("RuntimeError")
\* object.__setattr__ written as a setdefault: a name already set is kept
setattr_default(props, n, v) ==
    [m \in DOMAIN props \cup {n} |-> IF m \in DOMAIN props THEN props[m] ELSE v]
\* super().__setattr__(key, value): the instance dict gets the value
setattr(props, n, v) ==
    [m \in DOMAIN props \cup {n} |-> IF m = n THEN v ELSE props[m]]
\* attribute lookup that answers None for a name that is not set
getattr_default(props, n) ==
    IF n \in DOMAIN props THEN Return([type |-> "property", v |-> props[n]])
    ELSE Return(NoneValue)
\* attribute lookup on the instance dict: AttributeError for a name not set
getattr(props, n) ==
    IF n \in DOMAIN props THEN Return([type |-> "property", v |-> props[n]])
    ELSE Raise("AttributeError")
\* Context.__setattr__: with self._mutex around the assignment
with_mutex(t) == mutex' = [mutex EXCEPT ![_mutex] = RLock_release(RLock_acquire(@, t))]

\* with context: entered by a thread that is not in the middle of a call
Enter(t) ==
    /\ cpc[t] = "idle"
    /\ depth[t] < MaxDepth
    /\ MutexFreeFor(t)
    /\ enter(t)
    /\ depth' = [depth EXCEPT ![t] = @ + 1]
    /\ cret' = NoCall
    /\ UNCHANGED <<properties, cpc, tmp, token, generated, increments>>
    /\ UNCHANGED cacheVars

\* the end of the innermost with-block of the thread
Exit(t) ==
    /\ cpc[t] = "idle"
    /\ depth[t] > 0
    /\ exit(t)
    /\ depth' = [depth EXCEPT ![t] = @ - 1]
    /\ cret' = exit_outcome(t, NoCall)
    /\ UNCHANGED <<properties, cpc, tmp, token, generated, increments>>
    /\ UNCHANGED cacheVars

\* Context.__setattr__(key, value)
SetAttr(t, n, v) ==
    /\ cpc[t] = "idle"
    /\ MutexFreeFor(t)
    /\ with_mutex(t)
    /\ properties' = setattr(properties, n, v)
    /\ cret' = Return(NoneValue)
    /\ UNCHANGED <<cpc, depth, tmp, token, generated, increments>>
    /\ UNCHANGED cacheVars

\* reading an attribute of the Context: no lock is taken
GetAttr(t, n) ==
    /\ cpc[t] = "idle"
    /\ cret' = getattr(properties, n)
    /\ UNCHANGED <<properties, mutex, cpc, depth, tmp, token, generated, increments>>
    /\ UNCHANGED cacheVars

\* get_token() of the class docstring, statement by statement
CallGetToken(t) ==
    /\ cpc[t] = "idle"
    /\ cpc' = [cpc EXCEPT ![t] = "tok_enter"]
    /\ cret' = NoCall
    /\ UNCHANGED <<properties, mutex, depth, tmp, token, generated, increments>>
    /\ UNCHANGED cacheVars

\* with self.context as context:
TokEnter(t) ==
    /\ cpc[t] = "tok_enter"
    /\ MutexFreeFor(t)
    /\ enter(t)
    /\ cpc' = [cpc EXCEPT ![t] = "tok_read"]
    /\ cret' = NoCall
    /\ UNCHANGED <<properties, depth, tmp, token, generated, increments>>
    /\ UNCHANGED cacheVars

\* try: return context.token / except AttributeError:
TokRead(t) ==
    /\ cpc[t] = "tok_read"
    /\ IF "token" \in DOMAIN properties
       THEN /\ token' = [token EXCEPT ![t] = properties["token"]]
            /\ cpc' = [cpc EXCEPT ![t] = "tok_exit"]
       ELSE /\ token' = token
            /\ cpc' = [cpc EXCEPT ![t] = "tok_generate"]
    /\ cret' = NoCall
    /\ UNCHANGED <<properties, mutex, depth, tmp, generated, increments>>
    /\ UNCHANGED cacheVars

\* token = self.generate_token(): every call makes a token of its own
TokGenerate(t) ==
    /\ cpc[t] = "tok_generate"
    /\ token' = [token EXCEPT ![t] = t]
    /\ generated' = generated + 1
    /\ cpc' = [cpc EXCEPT ![t] = "tok_set"]
    /\ cret' = NoCall
    /\ UNCHANGED <<properties, mutex, depth, tmp, increments>>
    /\ UNCHANGED cacheVars

\* context.token = token
TokSet(t) ==
    /\ cpc[t] = "tok_set"
    /\ MutexFreeFor(t)
    /\ with_mutex(t)
    /\ properties' = setattr(properties, "token", token[t])
    /\ cpc' = [cpc EXCEPT ![t] = "tok_exit"]
    /\ cret' = NoCall
    /\ UNCHANGED <<depth, tmp, token, generated, increments>>
    /\ UNCHANGED cacheVars

\* return token: the with-block is left
TokExit(t) ==
    /\ cpc[t] = "tok_exit"
    /\ exit(t)
    /\ cpc' = [cpc EXCEPT ![t] = "idle"]
    /\ cret' = exit_outcome(t, Return([type |-> "property", v |-> token[t]]))
    /\ token' = [token EXCEPT ![t] = "-"]
    /\ UNCHANGED <<properties, depth, tmp, generated, increments>>
    /\ UNCHANGED cacheVars

\* token = self.generate_token() raises: the error leaves the with-block
\* through __exit__ and reaches the caller of get_token()
TokFail(t) ==
    /\ cpc[t] = "tok_generate"
    /\ exit(t)
    /\ cpc' = [cpc EXCEPT ![t] = "idle"]
    /\ cret' = exit_outcome(t, Raise("GenerateError"))
    /\ UNCHANGED <<properties, depth, tmp, token, generated, increments>>
    /\ UNCHANGED cacheVars

\* a thread increments the shared counter inside a scope of the Context
CallIncrement(t) ==
    /\ cpc[t] = "idle"
    /\ increments < MaxCount
    /\ cpc' = [cpc EXCEPT ![t] = "inc_enter"]
    /\ cret' = NoCall
    /\ UNCHANGED <<properties, mutex, depth, tmp, token, generated, increments>>
    /\ UNCHANGED cacheVars

\* with context:
IncEnter(t) ==
    /\ cpc[t] = "inc_enter"
    /\ MutexFreeFor(t)
    /\ enter(t)
    /\ cpc' = [cpc EXCEPT ![t] = "inc_read"]
    /\ cret' = NoCall
    /\ UNCHANGED <<properties, depth, tmp, token, generated, increments>>
    /\ UNCHANGED cacheVars

\* value = context.counter
IncRead(t) ==
    /\ cpc[t] = "inc_read"
    /\ tmp' = [tmp EXCEPT ![t] = properties["counter"]]
    /\ cpc' = [cpc EXCEPT ![t] = "inc_write"]
    /\ cret' = NoCall
    /\ UNCHANGED <<properties, mutex, depth, token, generated, increments>>
    /\ UNCHANGED cacheVars

\* context.counter = value + 1
IncWrite(t) ==
    /\ cpc[t] = "inc_write"
    /\ MutexFreeFor(t)
    /\ with_mutex(t)
    /\ properties' = [properties EXCEPT !["counter"] = tmp[t] + 1]
    /\ increments' = increments + 1
    /\ tmp' = [tmp EXCEPT ![t] = 0]
    /\ cpc' = [cpc EXCEPT ![t] = "inc_exit"]
    /\ cret' = NoCall
    /\ UNCHANGED <<depth, token, generated>>
    /\ UNCHANGED cacheVars

\* the with-block is left
IncExit(t) ==
    /\ cpc[t] = "inc_exit"
    /\ exit(t)
    /\ cpc' = [cpc EXCEPT ![t] = "idle"]
    /\ cret' = exit_outcome(t, NoCall)
    /\ UNCHANGED <<properties, depth, tmp, token, generated, increments>>
    /\ UNCHANGED cacheVars

\* names and values of the properties callers set and read directly
PropertyNames == {"x"}
PropertyValues == {"v1", "v2"}
\* the names callers read: the plain ones and the token of get_token()
ReadNames == PropertyNames \cup {"token"}
\* what a caller can store under the names Context.__init__ uses itself
ReservedValues == [MUTEX |-> {"RLock1"}, cache |-> PropertyValues]

NextContext ==
    \/ \E t \in Threads : Enter(t)
    \/ \E t \in Threads : Exit(t)
    \/ \E t \in Threads, n \in PropertyNames, v \in PropertyValues : SetAttr(t, n, v)
    \/ \E t \in Threads, n \in ReadNames : GetAttr(t, n)
    \/ \E t \in Threads : CallGetToken(t)
    \/ \E t \in Threads : TokEnter(t)
    \/ \E t \in Threads : TokRead(t)
    \/ \E t \in Threads : TokGenerate(t)
    \/ \E t \in Threads : TokSet(t)
    \/ \E t \in Threads : TokExit(t)
    \/ \E t \in Threads : CallIncrement(t)
    \/ \E t \in Threads : IncEnter(t)
    \/ \E t \in Threads : IncRead(t)
    \/ \E t \in Threads : IncWrite(t)
    \/ \E t \in Threads : IncExit(t)

Init == InitCache /\ InitContext



Spec == Init /\ [][Next]_vars

SpecContext == Init /\ [][NextContext]_vars

\* callers that also set the names MUTEX and cache
NextReserved ==
    \/ NextContext
    \/ \E t \in Threads, n \in DOMAIN ReservedValues :
          \E v \in ReservedValues[n] : SetAttr(t, n, v)

SpecReserved == Init /\ [][NextReserved]_vars

\* callers whose generate_token() may fail
NextLive ==
    \/ NextContext
    \/ \E t \in Threads : TokFail(t)

\* a call that has started goes on; a thread blocked in RLock.acquire() is
\* woken when the lock is released and gets it after finitely many releases
Fairness ==
    \A t \in Threads :
        /\ WF_vars(TokRead(t))
        /\ WF_vars(TokGenerate(t) \/ TokFail(t))
        /\ WF_vars(TokSet(t))
        /\ WF_vars(TokExit(t))
        /\ WF_vars(IncRead(t))
        /\ WF_vars(IncWrite(t))
        /\ WF_vars(IncExit(t))
        /\ SF_vars(TokEnter(t))
        /\ SF_vars(IncEnter(t))

SpecLive == Init /\ [][NextLive]_vars /\ Fairness

\* ------------------------------------------------------- claims on the Cache
\* the sweep of t is about to examine an item
Sweeping(t) ==
    /\ pc[t] = "evict_iter"
    /\ di_used[t] = Len(inventory)
    /\ idx[t] <= Len(inventory)
Current(t) == inventory[idx[t]]
\* the sweep of t has examined an item and left it in place
Examined(t) ==
    /\ pc[t] = "evict_iter"
    /\ di_used[t] = Len(inventory)
    /\ idx[t] > 1
Previous(t) == inventory[idx[t] - 1]
SameEntries(inv1, inv2, ks) ==
    \A k \in ks : /\ Has(inv1, k) <=> Has(inv2, k)
                  /\ Has(inv1, k) => Lookup(inv1, k) = Lookup(inv2, k)

\* C1: a sweep, called directly or from get, never removes the item it
\* examines when that item is busy, however long the item has been idle
C1_BusyNeverEvicted ==
    [][\A t \in Threads :
          (EvictStep(t) /\ Sweeping(t) /\ is_busy(Current(t)))
              => inventory' = inventory]_vars

\* a busy item idle for twice the threshold has been examined and kept
C1_Witness ==
    \E t \in Threads :
        /\ Examined(t)
        /\ holders[Previous(t).object] > 0
        /\ Count(busy[t], Previous(t).object) = 1
        /\ now[t] - Previous(t).last_requested >= 2 * eviction_threshold

\* C2 (as claimed): every item that is not busy and idle for the threshold
\* or longer when the sweep of a direct evict() examines it is removed, the
\* sweep goes through the whole inventory, and evict() returns a list holding
\* the object of each removed item exactly once
C2_EvictedReturnedOnce ==
    [][\A t \in Threads :
          (EvictStep(t) /\ frame[t].op = "evict") =>
              /\ (Sweeping(t) /\ ~is_busy(Current(t))
                     /\ now[t] - Current(t).last_requested >= eviction_threshold)
                    => /\ ~Has(inventory', Current(t).key)
                       /\ Count(evicted'[t], Current(t).object) = 1
              /\ pc'[t] = "idle"
                    => /\ ret'.kind = "return"
                       /\ ret'.value.type = "list"
                       /\ \A i \in DOMAIN evicted[t] :
                              Count(ret'.value.items, evicted[t][i]) = 1
                       /\ idx[t] > Len(inventory)]_vars

\* C3: a sweep never removes the item it examines when now - last_requested
\* is below the threshold, be the item busy or not and the difference negative
C3_FreshNeverEvicted ==
    [][\A t \in Threads :
          (EvictStep(t) /\ Sweeping(t)
             /\ now[t] - Current(t).last_requested < eviction_threshold)
              => inventory' = inventory]_vars

\* an item touched after the sweep read the clock has been examined and kept
C3_Witness ==
    \E t \in Threads :
        /\ Examined(t)
        /\ holders[Previous(t).object] = 0
        /\ Count(busy[t], Previous(t).object) = 0
        /\ now[t] - Previous(t).last_requested < 0

\* C4 (as claimed): put(k, v) stores v under k, and a get(k) that finds k
\* and ends with k still in the inventory does not fail: it returns the
\* object stored under k, whatever its sweep did to the other entries
C4_GetReturnsStored ==
    [][/\ \A t \in Threads, k \in Keys, o \in Objects :
             Put(t, k, o) => Has(inventory', k) /\ Lookup(inventory', k).object = o
       /\ \A t \in Threads, k \in Keys :
             (Get(t, k) /\ Has(inventory, k))
                 => /\ ret'.kind # "raise"
                    /\ frame'[t].object = Lookup(inventory, k).object
       /\ \A t \in Threads :
             (EvictStep(t) /\ frame[t].op = "get" /\ pc'[t] = "idle"
                /\ Has(inventory, frame[t].key)
                /\ Lookup(inventory, frame[t].key).object = frame[t].object)
                 => ret' = Return(ObjectValue(frame[t].object))]_vars

\* C5: get(k) for a key that is not in the inventory raises LookupError and
\* changes nothing: no entry, no timestamp, no lock, and no sweep is started
C5_GetAbsentFails ==
    [][\A t \in Threads, k \in Keys :
          (Get(t, k) /\ \A i \in DOMAIN inventory : inventory[i].key # k)
              => /\ IsNotFound(ret')
                 /\ ret' = Raise("LookupError")
                 /\ UNCHANGED <<inventory, lock_owner, lock_count, pc, frame,
                                now, idx, busy, evicted>>]_vars

\* a get has just failed on a key missing from an inventory that is not empty
C5_Witness ==
    /\ ret = Raise("LookupError")
    /\ inventory # <<>>

\* C6 (as claimed): purge(k) of a present key removes the entry of k alone
\* and returns the object stored under k; purge(k) of an absent key fails
\* with a not-found error and leaves the inventory as it was
C6_PurgeReturnsObject ==
    [][\A t \in Threads, k \in Keys :
          Purge(t, k) =>
              IF Has(inventory, k)
              THEN /\ ~Has(inventory', k)
                   /\ SameEntries(inventory, inventory', Keys \ {k})
                   /\ ret' = Return(ObjectValue(Lookup(inventory, k).object))
              ELSE /\ IsNotFound(ret')
                   /\ inventory' = inventory]_vars

\* C6 (amended): purge(k) of a present key removes the entry of k alone and
\* returns the Item stored under k, which holds the object and its
\* last_requested time; purge(k) of an absent key fails with a not-found
\* error and leaves the inventory as it was
C6_PurgeReturnsItem ==
    [][\A t \in Threads, k \in Keys :
          Purge(t, k) =>
              IF Has(inventory, k)
              THEN /\ ~Has(inventory', k)
                   /\ SameEntries(inventory, inventory', Keys \ {k})
                   /\ ret' = Return(ItemValue(Lookup(inventory, k)))
              ELSE /\ IsNotFound(ret')
                   /\ inventory' = inventory]_vars

\* an Item has just been purged from an inventory that keeps another entry
C6_Witness ==
    /\ ret.kind = "return"
    /\ ret.value.type = "Item"
    /\ inventory # <<>>

\* C7 (as claimed): an evict() that follows an evict() of the same thread at
\* once, with no other step and no time in between, changes nothing in the
\* inventory and returns the empty list
C7_EvictIdempotent ==
    [][\A t \in Threads :
          (EvictStep(t) /\ frame[t].op = "evict"
             /\ quiet = [thread |-> t, calls |-> 1])
              => /\ inventory' = inventory
                 /\ pc'[t] = "idle" => ret' = Return(ListValue(<<>>))]_vars

\* the thread is inside a with self._lock block
Holding(u) ==
    \/ pc[u] = "evict_iter"
    \/ pc[u] \in {"get_evict", "evict_lock"} /\ frame[u].op = "get"

C15_EvictCompletes ==
    [][\A t \in Threads :
          /\ (pc[t] = "evict_lock" /\ frame[t].op = "get")
                => lock_owner = t
          /\ (EvictStep(t) /\ pc'[t] = "idle")
                => /\ ret'.kind = "return"
                   /\ frame[t].op = "evict" => ret'.value.type = "list"]_vars

\* the key of the get that thread t is running
GetKey(t) == frame[t].key

C17_BusyIffHeld ==
    [][\A t \in Threads :
          (EvictStep(t) /\ Sweeping(t))
              => (is_busy(Current(t)) <=> holders[Current(t).object] > 0)]_vars

C19_BoundaryKept ==
    [][\A t \in Threads :
          (EvictStep(t) /\ Sweeping(t) /\ ~is_busy(Current(t))
             /\ now[t] - Current(t).last_requested = eviction_threshold)
              => inventory' = inventory]_vars

\* C19 (amended): a sweep removes an item that is not busy and whose
\* now - last_requested equals the threshold
C19_BoundaryEvicted ==
    [][\A t \in Threads :
          (EvictStep(t) /\ Sweeping(t) /\ ~is_busy(Current(t))
             /\ now[t] - Current(t).last_requested = eviction_threshold)
              => /\ ~Has(inventory', Current(t).key)
                 /\ Len(inventory') = Len(inventory) - 1]_vars

\* a sweep whose now equals the threshold has just removed an item: the item
\* was last requested at time 0 at the earliest, so exactly a threshold ago
C19_Witness ==
    \E t \in Threads :
        /\ pc[t] = "evict_iter"
        /\ Len(evicted[t]) = 1
        /\ di_used[t] = Len(inventory) + 1
        /\ now[t] = eviction_threshold

\* ----------------------------------------------------- claims on the Context
\* the thread is inside a with-block on the Context
InScope(t) ==
    \/ depth[t] > 0
    \/ cpc[t] \in {"tok_read", "tok_generate", "tok_set", "tok_exit",
                   "inc_read", "inc_write", "inc_exit"}
\* number of with-blocks on the Context the thread is inside
Scopes(t) ==
    depth[t] + (IF cpc[t] \in {"tok_read", "tok_generate", "tok_set", "tok_exit",
                               "inc_read", "inc_write", "inc_exit"} THEN 1 ELSE 0)

\* C8: at most one thread is inside a scope of the Context, and no increment
\* of the counter made inside a scope is lost: the value a thread read is
\* still the counter when it writes, and the counter counts the increments
C8_MutualExclusion ==
    /\ Cardinality({t \in Threads : InScope(t)}) <= 1
    /\ \A t \in Threads : cpc[t] = "inc_write" => tmp[t] = properties["counter"]
    /\ properties["counter"] = increments

\* a thread is in the middle of the second increment while another one waits
C8_Witness ==
    \E t, u \in Threads :
        /\ t # u
        /\ cpc[t] = "inc_write"
        /\ cpc[u] = "inc_enter"
        /\ increments >= 1

\* C9: the holder of the lock can enter a nested scope and set a property
\* without waiting; the lock counts the scopes its holder is inside, and as
\* long as the holder is inside one of them no other thread is inside any
C9_Reentrant ==
    \A t \in Threads :
        /\ (InScope(t) /\ cpc[t] = "idle" /\ depth[t] < MaxDepth) => ENABLED Enter(t)
        /\ (InScope(t) /\ cpc[t] = "idle") => ENABLED SetAttr(t, "x", "v1")
        /\ cpc[t] = "tok_set" => ENABLED TokSet(t)
        /\ cpc[t] = "inc_write" => ENABLED IncWrite(t)
        /\ InScope(t) => /\ mutex[_mutex].owner = t
                         /\ mutex[_mutex].count = Scopes(t)
                         /\ \A u \in Threads \ {t} : ~InScope(u)

\* a thread sets a property two scopes deep while another one waits to enter
C9_Witness ==
    \E t, u \in Threads :
        /\ t # u
        /\ depth[t] >= 1
        /\ cpc[t] = "tok_set"
        /\ mutex[_mutex].count >= 2
        /\ cpc[u] \in {"tok_enter", "inc_enter"}

\* C10: generate_token() is called at most once on a Context; a token is set
\* only by that call, and every thread that leaves get_token() returns the
\* token that call stored
C10_GeneratedOnce ==
    /\ generated <= 1
    /\ "token" \in DOMAIN properties => generated = 1
    /\ Cardinality({t \in Threads : cpc[t] \in {"tok_generate", "tok_set"}}) <= 1
    /\ \A t \in Threads :
          cpc[t] = "tok_exit" => /\ generated = 1
                                 /\ "token" \in DOMAIN properties
                                 /\ token[t] = properties["token"]

\* a thread is about to return the token that the other thread generated
C10_Witness ==
    \E t \in Threads :
        /\ cpc[t] = "tok_exit"
        /\ token[t] # t
        /\ generated = 1

\* C12: a set of a name stores the value under that name and leaves the
\* other properties alone; a property changes or appears only by a set of its
\* own name and none disappears; reading a name that is set returns the
\* value stored, at any depth of scopes of the reader or of another thread
C12_SetThenGet ==
    [][/\ \A t \in Threads, n \in PropertyNames, v \in PropertyValues :
             SetAttr(t, n, v)
                 => /\ DOMAIN properties' = DOMAIN properties \cup {n}
                    /\ properties'[n] = v
                    /\ \A m \in DOMAIN properties \ {n} :
                          properties'[m] = properties[m]
       /\ DOMAIN properties \subseteq DOMAIN properties'
       /\ \A n \in DOMAIN properties' :
             (n \notin DOMAIN properties \/ properties'[n] # properties[n])
                 => \/ /\ n \in PropertyNames
                       /\ \E t \in Threads : SetAttr(t, n, properties'[n])
                    \/ /\ n = "token"
                       /\ \E t \in Threads : TokSet(t) /\ properties'[n] = token[t]
                    \/ /\ n = "counter"
                       /\ \E t \in Threads : IncWrite(t) /\ properties'[n] = tmp[t] + 1
       /\ \A t \in Threads, n \in ReadNames :
             (GetAttr(t, n) /\ n \in DOMAIN properties)
                 => cret' = Return([type |-> "property", v |-> properties[n]])]_vars

\* the second value set under a name has been read back while a thread is
\* two scopes deep
C12_Witness ==
    /\ cret = Return([type |-> "property", v |-> "v2"])
    /\ \E t \in Threads : depth[t] = MaxDepth
    /\ properties["counter"] >= 1

\* C13 (as claimed): whatever was given at construction and whatever is set
\* afterwards, the cache property is the Cache made by the constructor and
\* the scope lock is the lock made by the constructor
C13_ReservedKept ==
    /\ properties["cache"] = "Cache0"
    /\ properties["MUTEX"] = "RLock0"

\* C14: reading a name that is not set raises AttributeError and changes
\* nothing in the Context
C14_GetUnsetFails ==
    [][\A t \in Threads, n \in ReadNames :
          (GetAttr(t, n) /\ n \notin DOMAIN properties)
              => /\ cret' = Raise("AttributeError")
                 /\ properties' = properties
                 /\ mutex' = mutex
                 /\ UNCHANGED <<cpc, depth, tmp, token, generated, increments>>]_vars

\* a read has failed on a Context that holds other properties set by callers
C14_Witness ==
    /\ cret = Raise("AttributeError")
    /\ "x" \in DOMAIN properties
    /\ "token" \notin DOMAIN properties

\* the thread waits to enter a scope of the Context
Waiting(t) == cpc[t] \in {"tok_enter", "inc_enter"}

====
